---- MODULE Spec2Model ----
(***************************************************************************)
(* FaissKBService (chatchat/server/knowledge_base/kb_service/              *)
(* faiss_kb_service.py) run by concurrent callers against one key          *)
(* (kb_name, vector_name) of the process-wide index pool.                  *)
(*                                                                         *)
(* The pool (kb_faiss_pool) and the handle (ThreadSafeFaiss) are imported  *)
(* by the service; their behaviour is taken from the design document.      *)
(* The vector index, the embedding model and the file system are external  *)
(* collaborators: each call to them either succeeds or raises.             *)
(***************************************************************************)
EXTENDS Integers, Sequences, FiniteSets, TLC

\* ------------------------------------------------------------------ bounds
MaxOps == 2          \* operations started in one behaviour

Threads == {"t1", "t2"}
NoThread == "none"
NoHandle == 0

\* ------------------------------------------------------------------ inputs
\* file names: spellings of "at" and of "bt"
Files == { <<"a", "t">>, <<"B", "T">> }
\* add_documents batches, each document given by its source
Batches == { << <<"a", "t">> >>, << <<"b", "t">>, <<"A", "T">> >> }
TopKs == {1, 2}

\* identifiers already in the snapshot of a knowledge base persisted earlier
SeedDocs == << [id |-> 1, source |-> <<"A", "T">>], [id |-> 2, source |-> <<"b", "t">>] >>
\* identifier lists: a known identifier; a known and an unknown one
IdLists == { <<1>>, <<2, 9>> }
NoDoc == [id |-> 0, source |-> <<>>]

VARIABLES
    pool,      \* kb_faiss_pool registry entry of the key: a handle or NoHandle
    atomic,    \* kb_faiss_pool.atomic: the thread holding the pool lock
    handles,   \* every ThreadSafeFaiss constructed so far: docs, holder, loaded
    disk,      \* kb_path / vs_path directories and the saved index
    nextId,    \* next identifier the index assigns
    pc, op, h, err, ret,   \* per caller: position, call, handle, exception, result
    pre,       \* per caller: index contents when its lease was granted
    opsLeft,   \* operations that may still be started
    hist       \* history of clear / drop / load completions

vars == <<pool, atomic, handles, disk, nextId, pc, op, h, err, ret, pre, opsLeft, hist>>

\* ------------------------------------------------------------- pure helpers
RECURSIVE SeqOfSet(_)
SeqOfSet(S) == IF S = {} THEN <<>>
               ELSE LET x == CHOOSE y \in S : \A z \in S : y <= z
                    IN <<x>> \o SeqOfSet(S \ {x})

Range(s) == { s[i] : i \in DOMAIN s }

\* str.lower() on one character / on a string
LowerChar(c) == CASE c = "A" -> "a" [] c = "B" -> "b" [] c = "T" -> "t" [] OTHER -> c
Lower(s) == [i \in DOMAIN s |-> LowerChar(s[i])]

Ids(docs) == { docs[i].id : i \in DOMAIN docs }

\* vs.docstore._dict.get(id)
DocGet(docs, id) == IF id \in Ids(docs)
                    THEN docs[CHOOSE i \in DOMAIN docs : docs[i].id = id]
                    ELSE NoDoc

\* vs.delete(ids): the entries of ids leave the docstore, the rest keep their order
VsDelete(docs, ids) == SelectSeq(docs, LAMBDA d : d.id \notin ids)

\* vs.add_embeddings: one new identifier per text, appended in input order
VsAdd(docs, sources, first) ==
    docs \o [i \in 1..Len(sources) |-> [id |-> first + i - 1, source |-> sources[i]]]

NoOp == [name |-> "none", docs |-> <<>>, file |-> <<>>, ids |-> <<>>, skip |-> FALSE, top_k |-> 0,
         in_db |-> FALSE, is_file |-> FALSE, vector_name |-> <<>>, embed_model |-> <<>>]

Ops ==
    { [NoOp EXCEPT !.name = "get_doc_by_ids", !.ids = l] : l \in IdLists }
    \cup { [NoOp EXCEPT !.name = "del_doc_by_ids", !.ids = l] : l \in IdLists }
    \cup { [NoOp EXCEPT !.name = "do_search", !.top_k = k] : k \in TopKs }
    \cup { [NoOp EXCEPT !.name = "do_add_doc", !.docs = b, !.skip = n] : b \in Batches, n \in BOOLEAN }
    \cup { [NoOp EXCEPT !.name = "do_delete_doc", !.file = f, !.skip = n] : f \in Files, n \in BOOLEAN }
    \cup { [NoOp EXCEPT !.name = n] : n \in {"do_create_kb", "do_clear_vs", "do_drop_kb"} }

\* embedding-model identifiers and vector_name arguments, as sequences of
\* characters; the vector_name <<>> is None or "", which `or` treats alike
EmbedModels == { <<"a", "1">>, <<"a", ":", "1">>, <<"a", "-", "1">>, <<":", "-", ":">> }
VectorNames == { <<>>, <<"v", ":", "1">> }

\* the operations that use neither the pool nor the index: exist_doc with the
\* answers of the document catalog and of the content directory, and do_init
LocalOps ==
    { [NoOp EXCEPT !.name = "exist_doc", !.file = f, !.in_db = d, !.is_file = i] :
          f \in Files, d \in BOOLEAN, i \in BOOLEAN }
    \cup { [NoOp EXCEPT !.name = "do_init", !.vector_name = v, !.embed_model = e] :
              v \in VectorNames, e \in EmbedModels }

NoDisk == [kb |-> FALSE, vs |-> FALSE, has |-> FALSE, docs |-> <<>>]
SeedDisk == [kb |-> TRUE, vs |-> TRUE, has |-> TRUE, docs |-> SeedDocs]

\* dropped: a drop removed kb_path and no operation was started since
\* removed: callers whose running clear removed the vs_path directory
\* cleared: such a clear completed and no load has consulted the registry since
\* old: identifiers the index or its snapshot held when a clear popped the entry
NoHist == [dropped |-> FALSE, removed |-> {}, cleared |-> FALSE, old |-> {}]

Init ==
    /\ pool = NoHandle
    /\ atomic = NoThread
    /\ handles = <<>>
    /\ disk \in {NoDisk, SeedDisk}
    /\ nextId = 3
    /\ pc = [t \in Threads |-> "idle"]
    /\ op = [t \in Threads |-> NoOp]
    /\ h = [t \in Threads |-> NoHandle]
    /\ err = [t \in Threads |-> "none"]
    /\ ret = [t \in Threads |-> <<>>]
    /\ pre = [t \in Threads |-> <<>>]
    /\ opsLeft = MaxOps
    /\ hist = NoHist

\* ------------------------------------------------------------ control flow
\* first step of each service operation
Entry(name) ==
    CASE name = "do_create_kb" -> "create_check"
      [] name \in {"do_clear_vs", "do_drop_kb"} -> "clear_lock"
      [] name = "exist_doc" -> "exist_body"
      [] name = "do_init" -> "init_body"
      [] OTHER -> "load"

\* (variant: del_doc_by_ids uses the index without taking the lease)
AfterLoad_NoLease(name) ==
    IF name = "do_create_kb" THEN "return"
    ELSE IF name = "del_doc_by_ids" THEN "delids_body" ELSE "acquire"

\* what the operation does with the handle load_vector_store() returned
AfterLoad(name) ==
    IF name = "do_create_kb" THEN "return" ELSE "acquire"

\* first statement inside "with self.load_vector_store().acquire() as vs"
Body(name) ==
    CASE name = "get_doc_by_ids" -> "get_body"
      [] name = "del_doc_by_ids" -> "delids_body"
      [] name = "do_search" -> "search_body"
      [] name = "do_add_doc" -> "embed"
      [] OTHER -> "del_body"

\* statement after the with-block: do_add_doc builds doc_infos, the others return
AfterSection(name, e) ==
    IF name = "do_add_doc" /\ e = "none" THEN "add_infos" ELSE "return"

\* positions inside the with-block of an operation
SectionPcs == {"get_body", "delids_body", "search_body", "embed", "add_emb",
               "add_save", "del_body", "del_save", "release"}

\* a caller invokes a service operation
Start(t) ==
    /\ pc[t] = "idle"
    /\ opsLeft > 0
    /\ \E o \in Ops :
         /\ op' = [op EXCEPT ![t] = o]
         /\ pc' = [pc EXCEPT ![t] = Entry(o.name)]
    /\ opsLeft' = opsLeft - 1
    /\ hist' = [hist EXCEPT !.dropped = FALSE]
    /\ UNCHANGED <<pool, atomic, handles, disk, nextId, h, err, ret, pre>>

\* the operation returns (or raises) to its caller
Return(t) ==
    /\ pc[t] = "return"
    /\ pc' = [pc EXCEPT ![t] = "idle"]
    /\ op' = [op EXCEPT ![t] = NoOp]
    /\ h' = [h EXCEPT ![t] = NoHandle]
    /\ err' = [err EXCEPT ![t] = "none"]
    /\ ret' = [ret EXCEPT ![t] = <<>>]
    /\ pre' = [pre EXCEPT ![t] = <<>>]
    /\ UNCHANGED <<pool, atomic, handles, disk, nextId, opsLeft, hist>>

\* -------------------------------------------- pool.load(key) and the handle
\* (variant: the registry is not consulted before a new index is registered)
load_registry_NoCheck(t) ==
    /\ pc[t] = "load"
    /\ atomic = NoThread
    /\ handles' = Append(handles, [docs |-> <<>>, holder |-> NoThread,
                                   loaded |-> FALSE, detached |-> FALSE])
    /\ pool' = Len(handles) + 1
    /\ h' = [h EXCEPT ![t] = Len(handles) + 1]
    /\ pc' = [pc EXCEPT ![t] = "load_construct"]
    /\ hist' = [hist EXCEPT !.cleared = FALSE]
    /\ UNCHANGED <<atomic, disk, nextId, op, err, ret, pre, opsLeft>>

\* load: with the pool lock taken for this one registry operation, return the
\* entry of the key or register a placeholder for the index to construct
load_registry(t) ==
    /\ pc[t] = "load"
    /\ atomic = NoThread
    /\ IF pool # NoHandle
       THEN /\ h' = [h EXCEPT ![t] = pool]
            /\ pc' = [pc EXCEPT ![t] = "load_wait"]
            /\ UNCHANGED <<pool, handles>>
       ELSE /\ handles' = Append(handles, [docs |-> <<>>, holder |-> NoThread,
                                           loaded |-> FALSE, detached |-> FALSE])
            /\ pool' = Len(handles) + 1
            /\ h' = [h EXCEPT ![t] = Len(handles) + 1]
            /\ pc' = [pc EXCEPT ![t] = "load_construct"]
    /\ hist' = [hist EXCEPT !.cleared = FALSE]
    /\ UNCHANGED <<atomic, disk, nextId, op, err, ret, pre, opsLeft>>

\* the index a construction obtains: the snapshot if one is persisted, else empty
Restore(d) == IF d.has THEN d.docs ELSE <<>>

\* load: outside the lock, restore from the snapshot or build an empty index
load_construct(t) ==
    /\ pc[t] = "load_construct"
    /\ handles' = [handles EXCEPT ![h[t]].docs = Restore(disk),
                                  ![h[t]].loaded = TRUE]
    /\ pc' = [pc EXCEPT ![t] = AfterLoad(op[t].name)]
    /\ UNCHANGED <<pool, atomic, disk, nextId, op, h, err, ret, pre, opsLeft, hist>>

\* load: a caller that found a placeholder waits for its construction to finish
load_wait(t) ==
    /\ pc[t] = "load_wait"
    /\ handles[h[t]].loaded
    /\ pc' = [pc EXCEPT ![t] = AfterLoad(op[t].name)]
    /\ UNCHANGED <<pool, atomic, handles, disk, nextId, op, h, err, ret, pre, opsLeft, hist>>

\* handle.acquire(): blocks until exclusive access is granted
acquire(t) ==
    /\ pc[t] = "acquire"
    /\ handles[h[t]].holder = NoThread
    /\ handles' = [handles EXCEPT ![h[t]].holder = t]
    /\ pre' = [pre EXCEPT ![t] = handles[h[t]].docs]
    /\ pc' = [pc EXCEPT ![t] = Body(op[t].name)]
    /\ UNCHANGED <<pool, atomic, disk, nextId, op, h, err, ret, opsLeft, hist>>

\* leaving the with-block, normally or by an exception: the lease is released
release(t) ==
    /\ pc[t] = "release"
    /\ handles' = [handles EXCEPT ![h[t]].holder = NoThread]
    /\ pc' = [pc EXCEPT ![t] = AfterSection(op[t].name, err[t])]
    /\ UNCHANGED <<pool, atomic, disk, nextId, op, h, err, ret, pre, opsLeft, hist>>

\* ------------------------------------------------------- service operations
\* get_doc_by_ids: [vs.docstore._dict.get(id) for id in ids]
get_doc_by_ids(t) ==
    /\ pc[t] = "get_body"
    /\ pc' = [pc EXCEPT ![t] = "release"]
    /\ ret' = [ret EXCEPT ![t] = [i \in DOMAIN op[t].ids |-> DocGet(handles[h[t]].docs, op[t].ids[i])]]
    /\ UNCHANGED <<pool, atomic, handles, disk, nextId, op, h, err, pre, opsLeft, hist>>

\* vs.delete(ids) of the FAISS store refuses a list with identifiers it does not
\* hold ("Some specified ids do not exist in the current store"): these are they
Missing(docs, ids) == Range(ids) \ Ids(docs)

\* (variant: the index is saved after the removal)
del_doc_by_ids_Saving(t) ==
    /\ pc[t] = "delids_body"
    /\ IF Missing(handles[h[t]].docs, op[t].ids) # {}
       THEN /\ err' = [err EXCEPT ![t] = "ValueError"]
            /\ UNCHANGED <<handles, disk>>
       ELSE \/ /\ handles' = [handles EXCEPT ![h[t]].docs = VsDelete(@, Range(op[t].ids))]
               /\ disk' = [kb |-> TRUE, vs |-> TRUE, has |-> TRUE,
                           docs |-> VsDelete(handles[h[t]].docs, Range(op[t].ids))]
               /\ UNCHANGED err
            \/ /\ err' = [err EXCEPT ![t] = "IndexError"]
               /\ UNCHANGED <<handles, disk>>
    /\ pc' = [pc EXCEPT ![t] = "release"]
    /\ UNCHANGED <<pool, atomic, nextId, op, h, ret, pre, opsLeft, hist>>

\* del_doc_by_ids: vs.delete(ids), called with the list as given and without any
\* handler: the store's ValueError for unknown identifiers, like any other
\* failure of the index, leaves the block as an exception
del_doc_by_ids(t) ==
    /\ pc[t] = "delids_body"
    /\ IF Missing(handles[h[t]].docs, op[t].ids) # {}
       THEN /\ err' = [err EXCEPT ![t] = "ValueError"]
            /\ UNCHANGED handles
       ELSE \/ /\ handles' = [handles EXCEPT ![h[t]].docs = VsDelete(@, Range(op[t].ids))]
               /\ UNCHANGED err
            \/ /\ err' = [err EXCEPT ![t] = "IndexError"]
               /\ UNCHANGED handles
    /\ pc' = [pc EXCEPT ![t] = "release"]
    /\ UNCHANGED <<pool, atomic, disk, nextId, op, h, ret, pre, opsLeft, hist>>

\* (variant: the search persists the index before it leaves the with-block)
do_search_Saving(t) ==
    /\ pc[t] = "search_body"
    /\ pc' = [pc EXCEPT ![t] = "release"]
    /\ \E S \in SUBSET Ids(handles[h[t]].docs) :
          /\ Cardinality(S) <= op[t].top_k
          /\ ret' = [ret EXCEPT ![t] = SeqOfSet(S)]
    /\ disk' = [kb |-> TRUE, vs |-> TRUE, has |-> TRUE, docs |-> handles[h[t]].docs]
    /\ UNCHANGED <<pool, atomic, handles, nextId, op, h, err, pre, opsLeft, hist>>

\* do_search: the retriever returns at most top_k of the indexed documents, or raises
do_search(t) ==
    /\ pc[t] = "search_body"
    /\ pc' = [pc EXCEPT ![t] = "release"]
    /\ \/ /\ \E S \in SUBSET Ids(handles[h[t]].docs) :
               /\ Cardinality(S) <= op[t].top_k
               /\ ret' = [ret EXCEPT ![t] = SeqOfSet(S)]
          /\ UNCHANGED err
       \/ /\ err' = [err EXCEPT ![t] = "RetrieverError"]
          /\ UNCHANGED ret
    /\ UNCHANGED <<pool, atomic, handles, disk, nextId, op, h, pre, opsLeft, hist>>

\* vs.save_local(self.vs_path): creates the directory if missing, writes the index
SaveLocal(d, docs) == [kb |-> TRUE, vs |-> TRUE, has |-> TRUE, docs |-> docs]

\* (variant: documents are embedded and inserted one by one, so a failure at a
\*  later document leaves the earlier ones in the index)
do_add_doc_embed_Partial(t) ==
    /\ pc[t] = "embed"
    /\ \/ /\ pc' = [pc EXCEPT ![t] = "add_emb"]
          /\ UNCHANGED <<err, handles, nextId>>
       \/ /\ err' = [err EXCEPT ![t] = "EmbeddingError"]
          /\ handles' = [handles EXCEPT ![h[t]].docs = VsAdd(@, SubSeq(op[t].docs, 1, 1), nextId)]
          /\ nextId' = nextId + 1
          /\ pc' = [pc EXCEPT ![t] = "release"]
    /\ UNCHANGED <<pool, atomic, disk, op, h, ret, pre, opsLeft, hist>>

\* do_add_doc: embeddings = vs.embeddings.embed_documents(texts)
do_add_doc_embed(t) ==
    /\ pc[t] = "embed"
    /\ \/ /\ pc' = [pc EXCEPT ![t] = "add_emb"]
          /\ UNCHANGED err
       \/ /\ err' = [err EXCEPT ![t] = "EmbeddingError"]
          /\ pc' = [pc EXCEPT ![t] = "release"]
    /\ UNCHANGED <<pool, atomic, handles, disk, nextId, op, h, ret, pre, opsLeft, hist>>

\* do_add_doc: ids = vs.add_embeddings(...)
do_add_doc_add(t) ==
    /\ pc[t] = "add_emb"
    /\ \/ /\ handles' = [handles EXCEPT ![h[t]].docs = VsAdd(@, op[t].docs, nextId)]
          /\ ret' = [ret EXCEPT ![t] = [i \in 1..Len(op[t].docs) |-> nextId + i - 1]]
          /\ nextId' = nextId + Len(op[t].docs)
          /\ pc' = [pc EXCEPT ![t] = IF op[t].skip THEN "release" ELSE "add_save"]
          /\ UNCHANGED err
       \/ /\ err' = [err EXCEPT ![t] = "IndexError"]
          /\ pc' = [pc EXCEPT ![t] = "release"]
          /\ UNCHANGED <<handles, ret, nextId>>
    /\ UNCHANGED <<pool, atomic, disk, op, h, pre, opsLeft, hist>>

\* (variant: a failing save leaves the function without releasing the lease)
do_add_doc_save_Leak(t) ==
    /\ pc[t] = "add_save"
    /\ \/ /\ disk' = SaveLocal(disk, handles[h[t]].docs)
          /\ pc' = [pc EXCEPT ![t] = "release"]
          /\ UNCHANGED err
       \/ /\ err' = [err EXCEPT ![t] = "SaveError"]
          /\ pc' = [pc EXCEPT ![t] = "return"]
          /\ UNCHANGED disk
    /\ UNCHANGED <<pool, atomic, handles, nextId, op, h, ret, pre, opsLeft, hist>>

\* do_add_doc: if not kwargs.get("not_refresh_vs_cache"): vs.save_local(self.vs_path)
do_add_doc_save(t) ==
    /\ pc[t] = "add_save"
    /\ \/ /\ disk' = SaveLocal(disk, handles[h[t]].docs)
          /\ UNCHANGED err
       \/ /\ err' = [err EXCEPT ![t] = "SaveError"]
          /\ UNCHANGED disk
    /\ pc' = [pc EXCEPT ![t] = "release"]
    /\ UNCHANGED <<pool, atomic, handles, nextId, op, h, ret, pre, opsLeft, hist>>

\* (variant: the identifiers are paired with the documents in reverse order)
do_add_doc_infos_Reversed(t) ==
    /\ pc[t] = "add_infos"
    /\ pc' = [pc EXCEPT ![t] = "return"]
    /\ ret' = [ret EXCEPT ![t] = [i \in DOMAIN ret[t] |->
                   [id |-> ret[t][Len(ret[t]) + 1 - i], source |-> op[t].docs[i]]]]
    /\ UNCHANGED <<pool, atomic, handles, disk, nextId, op, h, err, pre, opsLeft, hist>>

\* do_add_doc: doc_infos = [{"id": id, "metadata": doc.metadata} for id, doc in zip(ids, docs)]
do_add_doc_infos(t) ==
    /\ pc[t] = "add_infos"
    /\ pc' = [pc EXCEPT ![t] = "return"]
    /\ ret' = [ret EXCEPT ![t] = [i \in DOMAIN ret[t] |-> [id |-> ret[t][i], source |-> op[t].docs[i]]]]
    /\ UNCHANGED <<pool, atomic, handles, disk, nextId, op, h, err, pre, opsLeft, hist>>

\* (variant: the source is compared with the file name as spelled)
MatchIds_CaseSensitive(docs, file) ==
    LET m == SelectSeq(docs, LAMBDA d : d.source = file)
    IN [i \in DOMAIN m |-> m[i].id]

\* ids = [k for k, v in vs.docstore._dict.items()
\*        if v.metadata.get("source").lower() == kb_file.filename.lower()]
MatchIds(docs, file) ==
    LET m == SelectSeq(docs, LAMBDA d : Lower(d.source) = Lower(file))
    IN [i \in DOMAIN m |-> m[i].id]

\* do_delete_doc: collect the identifiers of the file and delete them if any
\* (variant: the snapshot is written whatever not_refresh_vs_cache says)
do_delete_doc_AlwaysSave(t) ==
    /\ pc[t] = "del_body"
    /\ LET ids == MatchIds(handles[h[t]].docs, op[t].file)
       IN \/ /\ handles' = [handles EXCEPT ![h[t]].docs =
                                IF Len(ids) > 0 THEN VsDelete(@, Range(ids)) ELSE @]
             /\ pc' = [pc EXCEPT ![t] = "del_save"]
             /\ ret' = [ret EXCEPT ![t] = ids]
             /\ UNCHANGED err
          \/ /\ Len(ids) > 0
             /\ err' = [err EXCEPT ![t] = "IndexError"]
             /\ pc' = [pc EXCEPT ![t] = "release"]
             /\ UNCHANGED <<handles, ret>>
    /\ UNCHANGED <<pool, atomic, disk, nextId, op, h, pre, opsLeft, hist>>

\* do_delete_doc: ids of the documents whose source is the file; vs.delete(ids)
\* if there are any
do_delete_doc(t) ==
    /\ pc[t] = "del_body"
    /\ LET ids == MatchIds(handles[h[t]].docs, op[t].file)
       IN \/ /\ handles' = [handles EXCEPT ![h[t]].docs =
                                IF Len(ids) > 0 THEN VsDelete(@, Range(ids)) ELSE @]
             /\ pc' = [pc EXCEPT ![t] = IF op[t].skip THEN "release" ELSE "del_save"]
             /\ ret' = [ret EXCEPT ![t] = ids]
             /\ UNCHANGED err
          \/ /\ Len(ids) > 0
             /\ err' = [err EXCEPT ![t] = "IndexError"]
             /\ pc' = [pc EXCEPT ![t] = "release"]
             /\ UNCHANGED <<handles, ret>>
    /\ UNCHANGED <<pool, atomic, disk, nextId, op, h, pre, opsLeft, hist>>

\* (variant: a failing save leaves the function without releasing the lease)
do_delete_doc_save_Leak(t) ==
    /\ pc[t] = "del_save"
    /\ \/ /\ disk' = SaveLocal(disk, handles[h[t]].docs)
          /\ pc' = [pc EXCEPT ![t] = "release"]
          /\ UNCHANGED err
       \/ /\ err' = [err EXCEPT ![t] = "SaveError"]
          /\ pc' = [pc EXCEPT ![t] = "return"]
          /\ UNCHANGED disk
    /\ UNCHANGED <<pool, atomic, handles, nextId, op, h, ret, pre, opsLeft, hist>>

\* do_delete_doc: if not kwargs.get("not_refresh_vs_cache"): vs.save_local(self.vs_path)
do_delete_doc_save(t) ==
    /\ pc[t] = "del_save"
    /\ \/ /\ disk' = SaveLocal(disk, handles[h[t]].docs)
          /\ UNCHANGED err
       \/ /\ err' = [err EXCEPT ![t] = "SaveError"]
          /\ UNCHANGED disk
    /\ pc' = [pc EXCEPT ![t] = "release"]
    /\ UNCHANGED <<pool, atomic, handles, nextId, op, h, ret, pre, opsLeft, hist>>

\* do_create_kb: if not os.path.exists(self.vs_path)
do_create_kb_check(t) ==
    /\ pc[t] = "create_check"
    /\ pc' = [pc EXCEPT ![t] = IF disk.vs THEN "load" ELSE "create_mkdir"]
    /\ UNCHANGED <<pool, atomic, handles, disk, nextId, op, h, err, ret, pre, opsLeft, hist>>

\* do_create_kb: os.makedirs(self.vs_path) raises FileExistsError on an existing directory
do_create_kb_makedirs(t) ==
    /\ pc[t] = "create_mkdir"
    /\ IF disk.vs
       THEN /\ err' = [err EXCEPT ![t] = "FileExistsError"]
            /\ pc' = [pc EXCEPT ![t] = "return"]
            /\ UNCHANGED disk
       ELSE /\ disk' = [disk EXCEPT !.kb = TRUE, !.vs = TRUE]
            /\ pc' = [pc EXCEPT ![t] = "load"]
            /\ UNCHANGED err
    /\ UNCHANGED <<pool, atomic, handles, nextId, op, h, ret, pre, opsLeft, hist>>

\* do_clear_vs: with kb_faiss_pool.atomic
do_clear_vs_lock(t) ==
    /\ pc[t] = "clear_lock"
    /\ atomic = NoThread
    /\ atomic' = t
    /\ pc' = [pc EXCEPT ![t] = "clear_pop"]
    /\ UNCHANGED <<pool, handles, disk, nextId, op, h, err, ret, pre, opsLeft, hist>>

\* (variant: the pool lock is kept after the entry was removed)
do_clear_vs_pop_KeepLock(t) ==
    /\ pc[t] = "clear_pop"
    /\ atomic = t
    /\ pool' = NoHandle
    /\ handles' = IF pool # NoHandle THEN [handles EXCEPT ![pool].detached = TRUE] ELSE handles
    /\ pc' = [pc EXCEPT ![t] = "clear_rmtree"]
    /\ hist' = IF op[t].name = "do_clear_vs"
               THEN [hist EXCEPT !.old = @ \cup Ids(disk.docs) \cup
                                         (IF pool # NoHandle THEN Ids(handles[pool].docs) ELSE {})]
               ELSE hist
    /\ h' = [h EXCEPT ![t] = pool]
    /\ UNCHANGED <<atomic, disk, nextId, op, err, ret, pre, opsLeft>>

\* do_clear_vs: kb_faiss_pool.pop((self.kb_name, self.vector_name)), lock released;
\* h[t] is the entry pop returned (the code does not use it)
do_clear_vs_pop(t) ==
    /\ pc[t] = "clear_pop"
    /\ atomic = t
    /\ pool' = NoHandle
    /\ handles' = IF pool # NoHandle THEN [handles EXCEPT ![pool].detached = TRUE] ELSE handles
    /\ atomic' = NoThread
    /\ pc' = [pc EXCEPT ![t] = "clear_rmtree"]
    /\ hist' = IF op[t].name = "do_clear_vs"
               THEN [hist EXCEPT !.old = @ \cup Ids(disk.docs) \cup
                                         (IF pool # NoHandle THEN Ids(handles[pool].docs) ELSE {})]
               ELSE hist
    /\ h' = [h EXCEPT ![t] = pool]
    /\ UNCHANGED <<disk, nextId, op, err, ret, pre, opsLeft>>

\* (variant: no try / except around the removal)
do_clear_vs_rmtree_Raises(t) ==
    /\ pc[t] = "clear_rmtree"
    /\ \/ /\ disk.vs
          /\ disk' = [disk EXCEPT !.vs = FALSE, !.has = FALSE, !.docs = <<>>]
          /\ hist' = [hist EXCEPT !.removed = @ \cup {t}]
          /\ pc' = [pc EXCEPT ![t] = "clear_mkdir"]
          /\ UNCHANGED err
       \/ /\ err' = [err EXCEPT ![t] = "OSError"]
          /\ pc' = [pc EXCEPT ![t] = "return"]
          /\ UNCHANGED <<disk, hist>>
    /\ UNCHANGED <<pool, atomic, handles, nextId, op, h, ret, pre, opsLeft>>

\* do_clear_vs: shutil.rmtree(self.vs_path), any exception swallowed
do_clear_vs_rmtree(t) ==
    /\ pc[t] = "clear_rmtree"
    /\ \/ /\ disk.vs
          /\ disk' = [disk EXCEPT !.vs = FALSE, !.has = FALSE, !.docs = <<>>]
          /\ hist' = [hist EXCEPT !.removed = @ \cup {t}]
       \/ UNCHANGED <<disk, hist>>
    /\ pc' = [pc EXCEPT ![t] = "clear_mkdir"]
    /\ UNCHANGED <<pool, atomic, handles, nextId, op, h, err, ret, pre, opsLeft>>

\* do_clear_vs: os.makedirs(self.vs_path, exist_ok=True)
do_clear_vs_makedirs(t) ==
    /\ pc[t] = "clear_mkdir"
    /\ disk' = [disk EXCEPT !.kb = TRUE, !.vs = TRUE]
    /\ pc' = [pc EXCEPT ![t] = IF op[t].name = "do_drop_kb" THEN "drop_rmtree" ELSE "return"]
    /\ hist' = [hist EXCEPT !.removed = @ \ {t},
                            !.cleared = IF op[t].name = "do_clear_vs" /\ t \in hist.removed
                                        THEN TRUE ELSE @]
    /\ UNCHANGED <<pool, atomic, handles, nextId, op, h, err, ret, pre, opsLeft>>

\* do_drop_kb: shutil.rmtree(self.kb_path), any exception swallowed
do_drop_kb(t) ==
    /\ pc[t] = "drop_rmtree"
    /\ \/ /\ disk.kb
          /\ disk' = NoDisk
          /\ hist' = [hist EXCEPT !.dropped = TRUE]
       \/ UNCHANGED <<disk, hist>>
    /\ pc' = [pc EXCEPT ![t] = "return"]
    /\ UNCHANGED <<pool, atomic, handles, nextId, op, h, err, ret, pre, opsLeft>>

\* ------------------------------------------------------- exist_doc, do_init
\* (variant: the content directory is looked at before the catalog)
exist_doc_FolderFirst(t) ==
    /\ pc[t] = "exist_body"
    /\ pc' = [pc EXCEPT ![t] = "return"]
    /\ \/ /\ ret' = [ret EXCEPT ![t] = IF op[t].is_file THEN <<"in_folder">>
                                       ELSE IF op[t].in_db THEN <<"in_db">> ELSE <<"False">>]
          /\ UNCHANGED err
       \/ /\ err' = [err EXCEPT ![t] = "CatalogError"]
          /\ UNCHANGED ret
    /\ UNCHANGED <<pool, atomic, handles, disk, nextId, op, h, pre, opsLeft, hist>>

\* exist_doc: "in_db" if the catalog knows the file, else "in_folder" if it is a
\* file of kb_path/content, else False (written "False"); the catalog may raise
exist_doc(t) ==
    /\ pc[t] = "exist_body"
    /\ pc' = [pc EXCEPT ![t] = "return"]
    /\ \/ /\ ret' = [ret EXCEPT ![t] = IF op[t].in_db THEN <<"in_db">>
                                       ELSE IF op[t].is_file THEN <<"in_folder">> ELSE <<"False">>]
          /\ UNCHANGED err
       \/ /\ err' = [err EXCEPT ![t] = "CatalogError"]
          /\ UNCHANGED ret
    /\ UNCHANGED <<pool, atomic, handles, disk, nextId, op, h, pre, opsLeft, hist>>

\* (variant: only the first ":" is replaced)
DefaultVectorName_FirstOnly(embed_model) ==
    [i \in DOMAIN embed_model |->
        IF embed_model[i] = ":" /\ \A j \in 1..(i - 1) : embed_model[j] # ":"
        THEN "_" ELSE embed_model[i]]

\* embed_model.replace(":", "_")
DefaultVectorName(embed_model) ==
    [i \in DOMAIN embed_model |-> IF embed_model[i] = ":" THEN "_" ELSE embed_model[i]]

\* do_init: self.vector_name = self.vector_name or the default; the name the
\* object ends with is kept in ret
do_init(t) ==
    /\ pc[t] = "init_body"
    /\ pc' = [pc EXCEPT ![t] = "return"]
    /\ ret' = [ret EXCEPT ![t] = IF op[t].vector_name # <<>> THEN op[t].vector_name
                                 ELSE DefaultVectorName(op[t].embed_model)]
    /\ UNCHANGED <<pool, atomic, handles, disk, nextId, op, h, err, pre, opsLeft, hist>>

Next ==
    \E t \in Threads :
        \/ Start(t)
        \/ Return(t)
        \/ load_registry(t)
        \/ load_construct(t)
        \/ load_wait(t)
        \/ acquire(t)
        \/ release(t)
        \/ get_doc_by_ids(t)
        \/ del_doc_by_ids(t)
        \/ do_search(t)
        \/ do_add_doc_embed(t)
        \/ do_add_doc_add(t)
        \/ do_add_doc_save(t)
        \/ do_add_doc_infos(t)
        \/ do_delete_doc(t)
        \/ do_delete_doc_save(t)
        \/ do_create_kb_check(t)
        \/ do_create_kb_makedirs(t)
        \/ do_clear_vs_lock(t)
        \/ do_clear_vs_pop(t)
        \/ do_clear_vs_rmtree(t)
        \/ do_clear_vs_makedirs(t)
        \/ do_drop_kb(t)

Spec == Init /\ [][Next]_vars

\* a caller starts exist_doc or constructs a service object
StartLocal(t) ==
    /\ pc[t] = "idle"
    /\ opsLeft > 0
    /\ \E o \in LocalOps :
         /\ op' = [op EXCEPT ![t] = o]
         /\ pc' = [pc EXCEPT ![t] = Entry(o.name)]
    /\ opsLeft' = opsLeft - 1
    /\ hist' = [hist EXCEPT !.dropped = FALSE]
    /\ UNCHANGED <<pool, atomic, handles, disk, nextId, h, err, ret, pre>>

LocalNext == \E t \in Threads : StartLocal(t) \/ Return(t) \/ exist_doc(t) \/ do_init(t)

LocalSpec == Init /\ [][LocalNext]_vars

\* ================================================================== claims
Holds(t) == { i \in DOMAIN handles : handles[i].holder = t }
InSection(t) == pc[t] \in SectionPcs
Mutating(t) == op[t].name \in {"do_add_doc", "do_delete_doc"}

\* ---- C1: on every handle at most one caller is inside its acquire() section
\* at any instant, and that caller is the one holding the handle's lease.
C1_MutualExclusion ==
    \A t \in Threads :
        InSection(t) =>
            /\ handles[h[t]].holder = t
            /\ \A u \in Threads \ {t} : InSection(u) => h[u] # h[t]

\* one caller has mutated the index inside its section while another caller,
\* given the same handle, is waiting for the lease
C1_Witness ==
    \E t, u \in Threads :
        /\ t # u
        /\ pc[t] \in {"add_save", "del_save"} /\ handles[h[t]].docs # pre[t]
        /\ pc[u] = "acquire" /\ h[u] = h[t]

\* ---- C2: the index of the key is constructed at most once while an entry is
\* in the pool: every handle that was not removed from the pool is the one entry
\* of the pool, so all callers that loaded it hold the same instance.
C2_SingleConstruction ==
    /\ \A i \in DOMAIN handles : ~handles[i].detached => pool = i
    /\ \A t, u \in Threads :
          (h[t] # NoHandle /\ h[u] # NoHandle
             /\ ~handles[h[t]].detached /\ ~handles[h[u]].detached) => h[t] = h[u]

\* two callers loaded the absent key concurrently: one constructs the index,
\* the other got the same handle and waits for the construction
C2_Witness ==
    \E t, u \in Threads :
        /\ pc[t] = "load_construct" /\ pc[u] = "load_wait"
        /\ h[t] = h[u] /\ h[t] = pool /\ Len(handles) = 1

\* ---- C3: once a clear of an existing knowledge base has completed and until
\* the next load consults the pool, whatever that load can return (the entry of
\* the pool, or an index restored from the snapshot) holds no document from
\* before the clear, under every interleaving with in-flight operations.
C3_ClearThenLoadIsFresh ==
    hist.cleared =>
        /\ Ids(Restore(disk)) \cap hist.old = {}
        /\ pool # NoHandle => Ids(handles[pool].docs) \cap hist.old = {}

\* ---- C4: a step of add_documents that raises or propagates the embedding
\* failure leaves the index as it was when the lease was granted and leaves the
\* disk alone, and the failure reaches the caller.
C4_EmbedFailureAllOrNothing ==
    [][\A t \in Threads :
          (pc[t] \in {"embed", "release"} /\ pc'[t] # pc[t] /\ err'[t] = "EmbeddingError") =>
              /\ handles'[h[t]].docs = pre[t]
              /\ Len(handles'[h[t]].docs) = Len(pre[t])
              /\ disk' = disk
              /\ pc'[t] \in {"release", "return"}]_vars

\* an add_documents call on a non-empty index ended with the embedding failure
C4_Witness ==
    \E t \in Threads :
        /\ pc[t] = "return" /\ err[t] = "EmbeddingError"
        /\ op[t].name = "do_add_doc" /\ Len(op[t].docs) = 2 /\ pre[t] # <<>>

\* two characters are the same letter, whatever their case
SameLetter(a, b) ==
    \/ a = b
    \/ {a, b} \in { {"a", "A"}, {"b", "B"}, {"t", "T"} }

EqualIgnoringCase(x, y) ==
    /\ Len(x) = Len(y)
    /\ \A i \in DOMAIN x : SameLetter(x[i], y[i])

\* ---- C5: when delete_by_source has removed its identifiers, the identifiers
\* it returns are exactly those whose source equals the file name ignoring
\* case, every other document is still in the index, and a second call would
\* find no identifier to remove.
C5_DeleteBySourceExact ==
    \A t \in Threads :
        (op[t].name = "do_delete_doc" /\ pc[t] \in {"del_save", "release"} /\ err[t] = "none") =>
            LET before == pre[t]
                after  == handles[h[t]].docs
                gone   == { before[i].id : i \in { j \in DOMAIN before :
                                EqualIgnoringCase(before[j].source, op[t].file) } }
            IN /\ Range(ret[t]) = gone
               /\ Len(ret[t]) = Cardinality(gone)
               /\ after = SelectSeq(before, LAMBDA d : d.id \notin gone)
               /\ MatchIds(after, op[t].file) = <<>>

\* a delete removed a document whose source is spelled in another case than
\* the file name and left another document in the index
C5_Witness ==
    \E t \in Threads :
        /\ op[t].name = "do_delete_doc" /\ pc[t] = "release" /\ err[t] = "none"
        /\ \E i \in DOMAIN pre[t] :
              pre[t][i].id \in Range(ret[t]) /\ pre[t][i].source # op[t].file
        /\ handles[h[t]].docs # <<>>

\* ---- C6: whenever add_documents or delete_by_source, run without the
\* skip-persist option, is about to release its lease after a successful save,
\* the index restored from the snapshot on disk equals the in-memory index of
\* its handle.
C6_SnapshotEqualsIndexAtRelease ==
    \A t \in Threads :
        (Mutating(t) /\ ~op[t].skip /\ pc[t] = "release" /\ err[t] = "none") =>
            Restore(disk) = handles[h[t]].docs

\* ---- C7: once a drop has removed the knowledge base's directory, and while
\* no operation has been started since, the key is not in the pool and the
\* directory is absent.
C7_DroppedIsTerminal ==
    hist.dropped => (pool = NoHandle /\ ~disk.kb /\ ~disk.vs)

\* ---- C8: create never fails because the directory exists, whatever other
\* callers do at the same time.
C8_CreateIdempotent ==
    \A t \in Threads : op[t].name = "do_create_kb" => err[t] # "FileExistsError"

\* ---- C9 as stated: no step of a search changes the in-memory index, the
\* snapshot or the pool registry.
C9_SearchChangesNothing ==
    [][\A t \in Threads :
          (op[t].name = "do_search" /\ pc'[t] # pc[t]) =>
              /\ pool' = pool
              /\ disk' = disk
              /\ \A i \in DOMAIN handles : handles'[i].docs = handles[i].docs
              /\ Len(handles') = Len(handles)]_vars

\* ---- C9 amended: no step of a search changes the disk or the documents of a
\* constructed index; the registry changes only at the load of a key that is
\* absent from the pool, which registers the handle the load constructs; the
\* index is as it was when the lease was granted, and the lease is released
\* before the search returns.
C9_SearchReadOnly ==
    [][\A t \in Threads :
          (op[t].name = "do_search" /\ pc'[t] # pc[t]) =>
              /\ disk' = disk
              /\ \A i \in DOMAIN handles :
                    handles[i].loaded => handles'[i].docs = handles[i].docs
              /\ (pc[t] # "load" \/ pool # NoHandle) =>
                    (pool' = pool /\ Len(handles') = Len(handles))
              /\ pc[t] = "release" =>
                    (handles'[h[t]].docs = pre[t] /\ handles'[h[t]].holder = NoThread)
              /\ pc'[t] = "return" => Holds(t)' = {}]_vars

\* a search on a non-empty index returned two documents and is back at its caller
C9_Witness ==
    \E t \in Threads :
        /\ op[t].name = "do_search" /\ pc[t] = "return"
        /\ Len(ret[t]) = 2 /\ handles[h[t]].docs # <<>>

\* ---- C10: a lease is held only by a caller inside its with-block on that
\* handle; a caller that left the block, by return or by a failure, holds none.
C10_LeaseReleased ==
    /\ \A i \in DOMAIN handles :
          handles[i].holder # NoThread =>
              (InSection(handles[i].holder) /\ h[handles[i].holder] = i)
    /\ \A t \in Threads : ~InSection(t) => Holds(t) = {}

\* an operation ended with a failure raised inside its block and another
\* caller was then granted the lease of the same handle
C10_Witness ==
    \E t, u \in Threads :
        /\ pc[t] = "return" /\ err[t] \in {"EmbeddingError", "IndexError", "SaveError"}
        /\ InSection(u) /\ h[u] = h[t] /\ handles[h[u]].holder = u

\* a step of caller t inside an operation it has started
Proceed(t) ==
    \/ Return(t) \/ load_registry(t) \/ load_construct(t) \/ load_wait(t)
    \/ acquire(t) \/ release(t) \/ get_doc_by_ids(t) \/ del_doc_by_ids(t)
    \/ do_search(t) \/ do_add_doc_embed(t) \/ do_add_doc_add(t) \/ do_add_doc_save(t)
    \/ do_add_doc_infos(t) \/ do_delete_doc(t) \/ do_delete_doc_save(t)
    \/ do_create_kb_check(t) \/ do_create_kb_makedirs(t) \/ do_clear_vs_lock(t)
    \/ do_clear_vs_pop(t) \/ do_clear_vs_rmtree(t) \/ do_clear_vs_makedirs(t)
    \/ do_drop_kb(t)

\* ---- C11: the pool lock is held only by a caller at the registry removal of
\* clear / drop; a caller that waits for or holds a lease never holds the pool
\* lock, and whenever some operation is unfinished some caller can take a step
\* (no deadlock between the pool lock and the leases).
C11_PoolLockNeverAcrossLease ==
    /\ \A t \in Threads :
          atomic = t => (pc[t] = "clear_pop" /\ Holds(t) = {})
    /\ \A t \in Threads :
          (pc[t] = "acquire" \/ InSection(t)) => atomic # t
    /\ (\E t \in Threads : pc[t] # "idle") => \E t \in Threads : ENABLED Proceed(t)

\* a clear holds the pool lock while another caller holds a lease and a
\* further step of that caller is possible
C11_Witness ==
    \E t, u \in Threads :
        /\ atomic = t /\ pc[t] = "clear_pop"
        /\ InSection(u) /\ handles[h[u]].holder = u /\ h[u] = pool

\* ---- C12: del_doc_by_ids given an identifier that is not in the index ends
\* without an error (and leaves the index as it was for that identifier).
C12_DeleteUnknownIsSilent ==
    \A t \in Threads :
        (op[t].name = "del_doc_by_ids" /\ pc[t] \in {"release", "return"}
           /\ Missing(pre[t], op[t].ids) # {}) =>
            /\ err[t] = "none"
            /\ Ids(handles[h[t]].docs) \cap Missing(pre[t], op[t].ids) = {}

\* ---- C13: a directory removal of clear / drop that fails raises nothing: the
\* operation goes on to its next statement without an exception, the entry the
\* caller popped is no longer the pool's, and the makedirs of clear leaves the
\* index directory in place.
C13_RemovalFailureTolerated ==
    [][\A t \in Threads :
          /\ (pc[t] = "clear_rmtree" /\ pc'[t] # pc[t] /\ disk' = disk) =>
                /\ err'[t] = "none" /\ pc'[t] = "clear_mkdir"
                /\ h[t] # NoHandle => (handles[h[t]].detached /\ pool # h[t])
          /\ (pc[t] = "clear_mkdir" /\ pc'[t] # pc[t]) =>
                /\ err'[t] = "none" /\ disk'.vs
                /\ pc'[t] = IF op[t].name = "do_clear_vs" THEN "return" ELSE "drop_rmtree"
          /\ (pc[t] = "drop_rmtree" /\ pc'[t] # pc[t] /\ disk' = disk) =>
                (err'[t] = "none" /\ pc'[t] = "return")]_vars

\* a clear of a persisted knowledge base returned normally although its
\* removal failed: the old snapshot is still on disk
C13_Witness ==
    \E t \in Threads :
        /\ op[t].name = "do_clear_vs" /\ pc[t] = "return" /\ err[t] = "none"
        /\ disk = SeedDisk /\ opsLeft = MaxOps - 1

AddOk(t) == op[t].name = "do_add_doc" /\ err[t] = "none"

\* ---- C14 as stated: when add_documents returns, it returns one pair per input
\* document in input order, and every returned identifier is in the index with
\* that document's metadata.
C14_AddReturnsPairsInIndex ==
    \A t \in Threads :
        (AddOk(t) /\ pc[t] = "return") =>
            /\ Len(ret[t]) = Len(op[t].docs)
            /\ \A i \in DOMAIN ret[t] :
                  /\ ret[t][i].source = op[t].docs[i]
                  /\ DocGet(handles[h[t]].docs, ret[t][i].id) = ret[t][i]

\* ---- C14 amended: while add_documents still holds the lease after the
\* insertion, the index is the one of the lease grant followed by one new
\* document per input document, in input order, under new distinct identifiers;
\* when it returns, it returns one pair per input document in input order, the
\* i-th pair carrying the i-th document's metadata and, as long as no other
\* caller has removed it, the identifier under which the index holds it.
C14_AddReturnsPairs ==
    \A t \in Threads :
        /\ (AddOk(t) /\ pc[t] \in {"add_save", "release"} /\ ret[t] # <<>>) =>
              /\ Len(ret[t]) = Len(op[t].docs)
              /\ Cardinality(Range(ret[t])) = Len(ret[t])
              /\ Range(ret[t]) \cap Ids(pre[t]) = {}
              /\ handles[h[t]].docs =
                    pre[t] \o [i \in DOMAIN ret[t] |-> [id |-> ret[t][i], source |-> op[t].docs[i]]]
        /\ (AddOk(t) /\ pc[t] = "return") =>
              /\ Len(ret[t]) = Len(op[t].docs)
              /\ \A i \in DOMAIN ret[t] :
                    /\ ret[t][i].source = op[t].docs[i]
                    /\ ret[t][i].id \notin Ids(pre[t])
                    /\ ret[t][i].id \in Ids(handles[h[t]].docs) =>
                          DocGet(handles[h[t]].docs, ret[t][i].id) = ret[t][i]

\* an add of two documents returned its two pairs, both still in the index
C14_Witness ==
    \E t \in Threads :
        /\ AddOk(t) /\ pc[t] = "return" /\ Len(ret[t]) = 2
        /\ \A i \in DOMAIN ret[t] : DocGet(handles[h[t]].docs, ret[t][i].id) = ret[t][i]

\* the operations started when progress is examined: every operation of the
\* service, each with one input (both identifier lists for del_doc_by_ids, whose
\* outcome depends on them)
LiveOps ==
    { o \in Ops :
        /\ o.name = "get_doc_by_ids" => o.ids = <<1>>
        /\ o.name = "do_search" => o.top_k = 1
        /\ o.name = "do_add_doc" => (o.docs = << <<"a", "t">> >> /\ ~o.skip)
        /\ o.name = "do_delete_doc" => (o.file = <<"a", "t">> /\ ~o.skip) }

StartLive(t) ==
    /\ pc[t] = "idle"
    /\ opsLeft > 0
    /\ \E o \in LiveOps :
         /\ op' = [op EXCEPT ![t] = o]
         /\ pc' = [pc EXCEPT ![t] = Entry(o.name)]
    /\ opsLeft' = opsLeft - 1
    /\ hist' = [hist EXCEPT !.dropped = FALSE]
    /\ UNCHANGED <<pool, atomic, handles, disk, nextId, h, err, ret, pre>>

LiveNext == \E t \in Threads : StartLive(t) \/ Proceed(t)

\* every caller that can take a step of its operation eventually takes one
\* (threads are scheduled fairly; no collaborator hangs); every such step moves
\* the caller's position
LiveSpec == Init /\ [][LiveNext]_vars /\ \A t \in Threads : WF_pc(Proceed(t))

\* ---- C15: under fair scheduling every caller waiting in acquire() is
\* eventually granted the lease, and every started operation eventually
\* returns to its caller.
C15_EveryOperationCompletes ==
    \A t \in Threads :
        /\ (pc[t] = "acquire") ~> InSection(t)
        /\ (pc[t] # "idle") ~> (pc[t] = "idle")

\* a caller waits in acquire() for a lease another caller holds, while that
\* holder is about to write the snapshot after its deletion
C15_Witness ==
    \E t, u \in Threads :
        /\ pc[u] = "acquire" /\ handles[h[u]].holder = t /\ t # u
        /\ pc[t] = "del_save" /\ h[u] = h[t]

\* ---- C16: exist_doc answers "in_db" whenever the catalog knows the file, whether
\* or not a raw file exists; otherwise "in_folder" if the file is in the content
\* directory; otherwise False; and it changes neither pool, index nor disk.
C16_ExistDocResult ==
    [][\A t \in Threads :
          (pc[t] = "exist_body" /\ pc'[t] # pc[t]) =>
              /\ UNCHANGED <<pool, atomic, handles, disk, nextId>>
              /\ err'[t] = "none" =>
                    /\ op[t].in_db => ret'[t] = <<"in_db">>
                    /\ (~op[t].in_db /\ op[t].is_file) => ret'[t] = <<"in_folder">>
                    /\ (~op[t].in_db /\ ~op[t].is_file) => ret'[t] = <<"False">>]_vars

\* exist_doc answered "in_db" for a file that is also in the content directory
C16_Witness ==
    \E t \in Threads :
        /\ op[t].name = "exist_doc" /\ pc[t] = "return" /\ err[t] = "none"
        /\ op[t].in_db /\ op[t].is_file /\ ret[t] = <<"in_db">>

Alnum == {"a", "b", "t", "v", "A", "B", "T", "1"}
InitDone(t) == op[t].name = "do_init" /\ pc[t] = "return"

\* ---- C20 as stated: when vector_name is not set, do_init leaves it the
\* embedding-model identifier with every non-alphanumeric character replaced
\* (and every other character kept); when it is set, it is kept as given.
C20_VariantNameNormalized ==
    \A t \in Threads :
        InitDone(t) =>
            IF op[t].vector_name = <<>>
            THEN /\ Len(ret[t]) = Len(op[t].embed_model)
                 /\ \A i \in DOMAIN ret[t] :
                       IF op[t].embed_model[i] \in Alnum
                       THEN ret[t][i] = op[t].embed_model[i]
                       ELSE ret[t][i] # op[t].embed_model[i]
            ELSE ret[t] = op[t].vector_name

\* ---- C20 amended: when vector_name is not set (None or empty), do_init leaves
\* it the embedding-model identifier with every ":" replaced by "_" and every
\* other character, alphanumeric or not, kept; when it is set, it is kept as
\* given, a ":" in it included.
C20_VariantNameColonReplaced ==
    \A t \in Threads :
        InitDone(t) =>
            IF op[t].vector_name = <<>>
            THEN /\ Len(ret[t]) = Len(op[t].embed_model)
                 /\ \A i \in DOMAIN ret[t] :
                       IF op[t].embed_model[i] = ":"
                       THEN ret[t][i] = "_"
                       ELSE ret[t][i] = op[t].embed_model[i]
            ELSE ret[t] = op[t].vector_name

\* do_init of an identifier with two ":" and a "-" left the name "_-_"
C20_Witness ==
    \E t \in Threads :
        /\ InitDone(t) /\ op[t].vector_name = <<>>
        /\ op[t].embed_model = <<":", "-", ":">> /\ ret[t] = <<"_", "-", "_">>

Saving(t) == pc[t] \in {"add_save", "del_save"}
Removing(t) == pc[t] \in {"clear_rmtree", "clear_mkdir"}

\* ---- C17: at most one caller at a time writes under the index path of the
\* key: no two callers are at their save step together, and no caller is at its
\* save step while another is at the directory removal / recreation of clear.
C17_SingleSnapshotWriter ==
    \A t, u \in Threads :
        (t # u /\ Saving(t)) => (~Saving(u) /\ ~Removing(u))

\* ---- C18: no step of an add_documents / delete_by_source called with
\* not_refresh_vs_cache changes the snapshot or reaches a save, although its
\* insertion / deletion changes the in-memory index; a delete_by_source called
\* without it goes on to save, and its save writes the index as the snapshot,
\* also when no identifier matched.
C18_SkipPersistLeavesSnapshot ==
    [][\A t \in Threads :
          (pc'[t] # pc[t] /\ Mutating(t)) =>
              /\ op[t].skip =>
                    /\ disk' = disk
                    /\ pc'[t] \notin {"add_save", "del_save"}
                    /\ (pc[t] = "add_emb" /\ err'[t] = "none") =>
                          /\ Len(handles'[h[t]].docs) = Len(handles[h[t]].docs) + Len(op[t].docs)
                          /\ pc'[t] = "release"
                    /\ (pc[t] = "del_body" /\ err'[t] = "none") =>
                          /\ Ids(handles'[h[t]].docs) = Ids(handles[h[t]].docs) \ Range(ret'[t])
                          /\ pc'[t] = "release"
              /\ (~op[t].skip /\ op[t].name = "do_delete_doc") =>
                    /\ (pc[t] = "del_body" /\ err'[t] = "none") => pc'[t] = "del_save"
                    /\ (pc[t] = "del_save" /\ err'[t] = "none") =>
                          (disk'.has /\ disk'.docs = handles[h[t]].docs)]_vars

\* an add called with not_refresh_vs_cache has returned its pair and then a
\* delete called without it, matching nothing, wrote the snapshot, which now
\* holds the added document
C18_Witness ==
    \E t, u \in Threads :
        /\ op[t].name = "do_add_doc" /\ op[t].skip /\ pc[t] = "return" /\ Len(ret[t]) = 1
        /\ op[u].name = "do_delete_doc" /\ ~op[u].skip /\ pc[u] = "release"
        /\ err[u] = "none" /\ ret[u] = <<>>
        /\ disk.has /\ ret[t][1].id \in Ids(disk.docs)

\* ---- C19: no step of del_doc_by_ids changes the snapshot or reaches a save;
\* its removal takes the given identifiers out of the in-memory index only, so
\* the snapshot keeps the removed documents until another operation saves.
C19_DeleteByIdsNeverSaves ==
    [][\A t \in Threads :
          (pc'[t] # pc[t] /\ op[t].name = "del_doc_by_ids") =>
              /\ disk' = disk
              /\ pc'[t] \notin {"add_save", "del_save"}
              /\ (pc[t] = "delids_body" /\ err'[t] = "none") =>
                    /\ Ids(handles'[h[t]].docs) = Ids(handles[h[t]].docs) \ Range(op[t].ids)
                    /\ Ids(handles'[h[t]].docs) # Ids(handles[h[t]].docs)]_vars

\* del_doc_by_ids([1]) has left the section: document 1 is gone from the index
\* and still in the snapshot
C19_Witness ==
    \E t \in Threads :
        /\ op[t].name = "del_doc_by_ids" /\ pc[t] = "return" /\ err[t] = "none"
        /\ op[t].ids = <<1>> /\ 1 \notin Ids(handles[h[t]].docs)
        /\ disk.has /\ 1 \in Ids(disk.docs)

====
